---- MODULE Spec2Model ----
(***************************************************************************)
(* The cached request layer of the dashboard (services/api.ts): the cache   *)
(* key derivation, the freshness check, apiRequest with its suspension at   *)
(* the axios call, the error handler and the two cache-clearing operations. *)
(***************************************************************************)
EXTENDS Integers, Sequences, FiniteSets, TLC

VARIABLES cache, now, inflight, last, sites, probe, env, svc, plain, widget

vars == <<cache, now, inflight, last, sites, probe, env, svc, plain, widget>>

(***************************************************************************)
(* Program constants                                                        *)
(***************************************************************************)
\* const DEFAULT_CACHE_DURATION = 5 * 60 * 1000
DEFAULT_CACHE_DURATION == 5 * 60 * 1000

\* the override passed by getStockData: 30 * 60 * 1000
STOCK_CACHE_DURATION == 30 * 60 * 1000

(***************************************************************************)
(* Bounds of the model                                                      *)
(***************************************************************************)
\* number of apiRequest calls that may be suspended at the axios call at once
MaxInFlight == 2

(***************************************************************************)
(* Values                                                                   *)
(***************************************************************************)
\* JavaScript values a query parameter may hold; v is the text of the value
StrVal(s) == [t |-> "str", v |-> s]
NumVal(s) == [t |-> "num", v |-> s]
NullVal == [t |-> "null", v |-> ""]
NaNVal == [t |-> "nan", v |-> ""]
UndefVal == [t |-> "undef", v |-> ""]

\* one property of a params object
Pair(n, x) == [name |-> n, value |-> x]

\* options.params: either undefined or an object, its properties in insertion order
NoParams == [defined |-> FALSE, props |-> <<>>]
Params(props) == [defined |-> TRUE, props |-> props]

\* the options argument of apiRequest ({} when omitted): an AxiosRequestConfig, of
\* which the model keeps params, url and method ("" for a field that is not given)
OptionsWith(params, url, method) == [params |-> params, url |-> url, method |-> method]
Options(params) == OptionsWith(params, "", "")

\* the config handed to axios: { url, ...options }, the fields of options spread after
\* url; axios sends a GET when the config names no method
AxiosConfig(url, options) ==
  [url |-> IF options.url # "" THEN options.url ELSE url,
   method |-> IF options.method # "" THEN options.method ELSE "get",
   params |-> options.params]

\* a CacheItem as seen from outside: present or not, with its data and timestamp
NoEntry == [present |-> FALSE, data |-> "", timestamp |-> 0]
EntryOf(c, k) ==
  IF k \in DOMAIN c
    THEN [present |-> TRUE, data |-> c[k].data, timestamp |-> c[k].timestamp]
    ELSE NoEntry

\* the failures axios may reject with: error.response (with its status) and error.request
AxiosError(hasResponse, status, hasRequest) ==
  [hasResponse |-> hasResponse, status |-> status, hasRequest |-> hasRequest]
NoError == [hasResponse |-> FALSE, status |-> 0 - 1, hasRequest |-> FALSE]
TransportErrors ==
  { AxiosError(TRUE, 429, TRUE), AxiosError(FALSE, 0, TRUE), AxiosError(FALSE, 0, FALSE) }

\* response bodies the upstream may answer with
Bodies == {"v1", "v2"}

\* the instants Date.now() is observed at (milliseconds)
Instants == {0, DEFAULT_CACHE_DURATION - 1, DEFAULT_CACHE_DURATION}

\* the cacheDuration argument: omitted (default applies) or given
DurationOmitted == [given |-> FALSE, ms |-> 0]
DurationGiven(ms) == [given |-> TRUE, ms |-> ms]
DurationArgs == {DurationOmitted, DurationGiven(STOCK_CACHE_DURATION)}

(***************************************************************************)
(* Cache key derivation                                                     *)
(***************************************************************************)
\* JSON.stringify of a primitive: strings are quoted, NaN becomes null
JsonValue(x) ==
  CASE x.t = "str" -> "\"" \o x.v \o "\""
    [] x.t = "num" -> x.v
    [] x.t = "null" -> "null"
    [] x.t = "nan" -> "null"

RECURSIVE JsonMembers(_)
JsonMembers(props) ==
  IF props = <<>> THEN ""
  ELSE LET m == "\"" \o Head(props).name \o "\":" \o JsonValue(Head(props).value)
       IN IF Tail(props) = <<>> THEN m ELSE m \o "," \o JsonMembers(Tail(props))

\* JSON.stringify of an object: properties in insertion order, undefined ones left out
JsonStringify(props) ==
  "{" \o JsonMembers(SelectSeq(props, LAMBDA p : p.value.t # "undef")) \o "}"

\* a key made of the url alone
getCacheKey_UrlOnly(url, params) == url

\* `${url}${params ? JSON.stringify(params) : ''}`
getCacheKey(url, params) ==
  url \o (IF params.defined THEN JsonStringify(params.props) ELSE "")

(***************************************************************************)
(* Freshness check and error handler                                        *)
(***************************************************************************)
\* a check with the comparison the wrong way round
isCacheValid_Flipped(cacheKey, cacheDuration) ==
  /\ cacheKey \in DOMAIN cache
  /\ now - cache[cacheKey].timestamp > cacheDuration

\* a check that also accepts the entry whose age equals the duration
isCacheValid_Inclusive(cacheKey, cacheDuration) ==
  /\ cacheKey \in DOMAIN cache
  /\ now - cache[cacheKey].timestamp <= cacheDuration

\* a check that judges every entry with the default window
isCacheValid_DefaultWindow(cacheKey, cacheDuration) ==
  /\ cacheKey \in DOMAIN cache
  /\ now - cache[cacheKey].timestamp < DEFAULT_CACHE_DURATION

\* const item = cache[cacheKey]; if (!item) return false;
\* return Date.now() - item.timestamp < cacheDuration
isCacheValid(cacheKey, cacheDuration) ==
  /\ cacheKey \in DOMAIN cache
  /\ now - cache[cacheKey].timestamp < cacheDuration

\* url?.includes('openweathermap.org')
OpenWeatherMapUrls ==
  { "openweathermap.org/w",
    "https://api.openweathermap.org/data/2.5/weather",
    "https://api.openweathermap.org/data/2.5/forecast",
    "https://api.openweathermap.org/data/2.5/air_pollution",
    "https://api.openweathermap.org/geo/1.0/reverse",
    "https://api.openweathermap.org/geo/1.0/direct" }

\* a handler that compares the status with the text '429' and so never notes the limit
handleApiError_NoRateLimit(error, url) ==
  IF error.hasResponse
    THEN [class |-> "response", rateLimit |-> FALSE, hint |-> "none"]
  ELSE IF error.hasRequest
    THEN [class |-> "no-response", rateLimit |-> FALSE, hint |-> "none"]
    ELSE [class |-> "setup", rateLimit |-> FALSE, hint |-> "none"]

\* a handler that looks at error.request before error.response
handleApiError_RequestFirst(error, url) ==
  IF error.hasRequest
    THEN [class |-> "no-response", rateLimit |-> FALSE, hint |-> "none"]
  ELSE IF error.hasResponse
    THEN [class |-> "response", rateLimit |-> (error.status = 429), hint |-> "none"]
    ELSE [class |-> "setup", rateLimit |-> FALSE, hint |-> "none"]

\* handleApiError returns nothing; what it writes to the console is its only effect
NothingLogged == [class |-> "none", rateLimit |-> FALSE, hint |-> "none"]
handleApiError(error, url) ==
  IF error.hasResponse
    THEN [class |-> "response",
          rateLimit |-> (error.status = 429),
          hint |-> IF url \in OpenWeatherMapUrls
                     THEN (CASE error.status = 401 -> "invalid-key"
                             [] error.status = 404 -> "not-found"
                             [] error.status = 429 -> "rate-limit"
                             [] OTHER -> "none")
                     ELSE "none"]
  ELSE IF error.hasRequest
    THEN [class |-> "no-response", rateLimit |-> FALSE, hint |-> "none"]
    ELSE [class |-> "setup", rateLimit |-> FALSE, hint |-> "none"]

(***************************************************************************)
(* Callers' inputs                                                          *)
(***************************************************************************)
Args(url, options) == [url |-> url, options |-> options]

\* the (url, options) pairs the call sites of one run pass: a run has two call sites,
\* here those of one url that differ in the value of q
SiteSets ==
  { { Args("openweathermap.org/w", Options(Params(<<Pair("q", StrVal("a"))>>))),
      Args("openweathermap.org/w", Options(Params(<<Pair("q", StrVal("b"))>>))) } }

\* the call sites of a run in which one passes no params and the other passes {}
AbsentSiteSets ==
  { { Args("u", Options(NoParams)), Args("u", Options(Params(<<>>))) } }

\* cacheDuration: number = DEFAULT_CACHE_DURATION
EffectiveDuration(arg) == IF arg.given THEN arg.ms ELSE DEFAULT_CACHE_DURATION

(***************************************************************************)
(* The record of the operation that ran last (observation only)             *)
(***************************************************************************)
\* transport: what axios produced (body or failure); data, error: what apiRequest
\* returned or threw; snap: the entry of the key when the call was made;
\* touched, overtaken: what happened to that entry while the call was suspended;
\* waited: the clock advanced right before the response arrived, so after the call
\* afterFailure: the call was made right after a call for its key had rejected, the
\* entry of the key being as the failed call had found it;
\* clearedBy: the clearing operation that removed the entry of the key right before
\* the call was made or, for a response, right before it arrived
NoOp ==
  [op |-> "none", url |-> "", params |-> NoParams, key |-> "",
   durationArg |-> DurationOmitted, outcome |-> "none", net |-> FALSE,
   transport |-> "none", body |-> "", failure |-> NoError,
   data |-> "", error |-> NoError, logged |-> NothingLogged,
   snap |-> NoEntry, touched |-> FALSE, overtaken |-> "", waited |-> FALSE,
   afterFailure |-> FALSE,
   clearedBy |-> "none", racing |-> FALSE, removed |-> {}]

\* an apiRequest suspended at `await axios({ url, ...options })`
Pending(url, options, cacheKey) ==
  [url |-> url, options |-> options, cacheKey |-> cacheKey,
   snap |-> EntryOf(cache, cacheKey), touched |-> FALSE, overtaken |-> ""]

RemoveAt(s, i) == SubSeq(s, 1, i - 1) \o SubSeq(s, i + 1, Len(s))

\* the suspended calls after the entries of the keys in ks were stored or removed
Touch(calls, ks) ==
  [j \in 1..Len(calls) |->
     IF calls[j].cacheKey \in ks THEN [calls[j] EXCEPT !.touched = TRUE] ELSE calls[j]]

(***************************************************************************)
(* import.meta.env and the record of the running service call              *)
(***************************************************************************)
EnvNames == {"VITE_OPENWEATHER_API_KEY", "VITE_ALPHAVANTAGE_API_KEY"}

\* the key of the OpenWeatherMap documentation that weatherService refuses
SAMPLE_API_KEY == "b6907d289e10d714a6e88b30761fae22"

\* an environment that sets none of the names
NoEnv == [n \in EnvNames |-> UndefVal]

\* the environments of the runs: each name unset, empty, set, or set to the sample key
Envs ==
  { [n \in EnvNames |-> v] :
      v \in {UndefVal, StrVal(""), StrVal("k"), StrVal(SAMPLE_API_KEY)} }

\* scope: the service function a run exercises; pc: idle, await (suspended at an
\* apiRequest that went to the network), resume (the awaited apiRequest has returned
\* got), done; credential: what getEnvVariable returned; failed: an apiRequest of the
\* call has rejected; thrown, error: the message the call rejects with and, when it
\* rethrows what apiRequest threw, that AxiosError
NoService ==
  [scope |-> "none", fn |-> "none", arg |-> "", pc |-> "idle", stage |-> "none",
   credential |-> "", apiKey |-> "", got |-> "", current |-> "",
   outcome |-> "none", result |-> "", thrown |-> "none", error |-> NoError,
   failed |-> FALSE]

(***************************************************************************)
(* The second copy of api.ts and the air quality widget                     *)
(***************************************************************************)
\* the module state of the copy of api.ts that does not log (its own cache object,
\* its calls suspended at axios) and what its apiRequest did last: outcome, net (it
\* went to the network), data returned, error thrown, logged
NoPlain ==
  [cache |-> [k \in {} |-> NoEntry], inflight |-> <<>>,
   outcome |-> "none", net |-> FALSE, data |-> "", error |-> NoError,
   logged |-> [class |-> "none", rateLimit |-> FALSE]]

\* the state of AirQualityWidget (useState), the callbacks it waits for (geo: the
\* getCurrentPosition of the mount effect; searches: the searchLocation calls
\* awaited; fetches: the getAirQualityByCoords calls awaited, latest marking the one
\* issued last) and what happened last (event; settled: the fetch that completed)
\* null is written "none" (coordinates, error) or NoData (airQualityData)
AirQualityData(aqi, location) == [aqi |-> aqi, location |-> location]
NoData == AirQualityData(0, "")
NoSettled == [outcome |-> "none", data |-> NoData, message |-> "none", latest |-> FALSE]
NoWidget ==
  [location |-> "", coordinates |-> "none", airQualityData |-> NoData,
   isLoading |-> FALSE, error |-> "none", geo |-> "none", searches |-> 0,
   fetches |-> <<>>, event |-> "none", settled |-> NoSettled]

(***************************************************************************)
(* Initial state: empty cache, nothing in flight                            *)
(***************************************************************************)
NoProbe == [a |-> Args("", Options(NoParams)), b |-> Args("", Options(NoParams)),
            ka |-> "", kb |-> "", done |-> FALSE]

Init ==
  /\ cache = [k \in {} |-> NoEntry]
  /\ now = 0
  /\ inflight = <<>>
  /\ last = NoOp
  /\ sites \in SiteSets
  /\ probe = NoProbe
  /\ env = NoEnv
  /\ svc = NoService
  /\ plain = NoPlain
  /\ widget = NoWidget

(***************************************************************************)
(* apiRequest: the synchronous part, up to the return of cached data or to  *)
(* the await of the axios call                                              *)
(***************************************************************************)
\* an apiRequest that deletes the stale entry it finds before it fetches
apiRequest_EvictsStale(url, options, cacheDurationArg) ==
  LET cacheDuration == EffectiveDuration(cacheDurationArg)
      cacheKey == getCacheKey(url, options.params)
      seen == [NoOp EXCEPT !.op = "apiRequest", !.url = url, !.params = options.params,
                           !.key = cacheKey, !.durationArg = cacheDurationArg]
  IN IF isCacheValid(cacheKey, cacheDuration)
       THEN /\ last' = [seen EXCEPT !.outcome = "hit", !.data = cache[cacheKey].data]
            /\ UNCHANGED <<cache, now, inflight, sites, probe, env, widget>>
       ELSE /\ Len(inflight) < MaxInFlight
            /\ inflight' = Append(inflight, Pending(url, options, cacheKey))
            /\ cache' = [k \in DOMAIN cache \ {cacheKey} |-> cache[k]]
            /\ last' = [seen EXCEPT !.outcome = "pending", !.net = TRUE]
            /\ UNCHANGED <<now, sites, probe, env, widget>>

\* an apiRequest whose hit renews the timestamp of the entry it serves
apiRequest_SlidingExpiration(url, options, cacheDurationArg) ==
  LET cacheDuration == EffectiveDuration(cacheDurationArg)
      cacheKey == getCacheKey(url, options.params)
      seen == [NoOp EXCEPT !.op = "apiRequest", !.url = url, !.params = options.params,
                           !.key = cacheKey, !.durationArg = cacheDurationArg]
  IN IF isCacheValid(cacheKey, cacheDuration)
       THEN /\ last' = [seen EXCEPT !.outcome = "hit", !.data = cache[cacheKey].data]
            /\ cache' = [cache EXCEPT ![cacheKey].timestamp = now]
            /\ UNCHANGED <<now, inflight, sites, probe, env, widget>>
       ELSE /\ Len(inflight) < MaxInFlight
            /\ inflight' = Append(inflight, Pending(url, options, cacheKey))
            /\ last' = [seen EXCEPT !.outcome = "pending", !.net = TRUE]
            /\ UNCHANGED <<cache, now, sites, probe, env, widget>>

apiRequest(url, options, cacheDurationArg) ==
  LET cacheDuration == EffectiveDuration(cacheDurationArg)
      cacheKey == getCacheKey(url, options.params)
      seen == [NoOp EXCEPT !.op = "apiRequest", !.url = url, !.params = options.params,
                           !.key = cacheKey, !.durationArg = cacheDurationArg,
                           !.clearedBy = IF cacheKey \in last.removed THEN last.op
                                         ELSE "none",
                           !.racing = (\E i \in 1..Len(inflight) :
                                         inflight[i].cacheKey = cacheKey),
                           !.afterFailure = /\ last.op = "settle"
                                            /\ last.outcome = "rejected"
                                            /\ last.key = cacheKey
                                            /\ last.snap = EntryOf(cache, cacheKey)]
  IN IF isCacheValid(cacheKey, cacheDuration)
       THEN \* return cache[cacheKey]?.data
            /\ last' = [seen EXCEPT !.outcome = "hit", !.data = cache[cacheKey].data]
            /\ UNCHANGED <<cache, now, inflight, sites, probe, env, widget>>
       ELSE \* await axios({ url, ...options })
            /\ Len(inflight) < MaxInFlight
            /\ inflight' = Append(inflight, Pending(url, options, cacheKey))
            /\ last' = [seen EXCEPT !.outcome = "pending", !.net = TRUE]
            /\ UNCHANGED <<cache, now, sites, probe, env, widget>>

\* the calls still suspended once the i-th has stored data: those issued before it for
\* the same key are overtaken, all those for the same key see their entry touched
StillPending(i, data) ==
  Touch(RemoveAt([j \in 1..Len(inflight) |->
                    IF j < i /\ inflight[j].cacheKey = inflight[i].cacheKey
                      THEN [inflight[j] EXCEPT !.overtaken = data]
                      ELSE inflight[j]], i),
        {inflight[i].cacheKey})

\* the continuation of the i-th suspended apiRequest keeps the entry a request issued
\* later has stored meanwhile
apiRequestResolved_FirstWriterWins(i, data) ==
  LET call == inflight[i]
  IN /\ cache' = IF call.overtaken # "" THEN cache
                 ELSE [k \in DOMAIN cache \cup {call.cacheKey} |->
                         IF k = call.cacheKey THEN [data |-> data, timestamp |-> now]
                         ELSE cache[k]]
     /\ inflight' = StillPending(i, data)
     /\ last' = [NoOp EXCEPT !.op = "settle", !.url = call.url,
                             !.params = call.options.params, !.key = call.cacheKey,
                             !.outcome = "resolved", !.transport = "ok", !.body = data,
                             !.data = data, !.snap = call.snap,
                             !.touched = call.touched, !.overtaken = call.overtaken,
                             !.waited = (last.op = "tick"),
                             !.clearedBy = IF call.cacheKey \in last.removed
                                             THEN last.op ELSE "none"]
     /\ UNCHANGED <<now, sites, probe, env, widget>>

\* a continuation that looks at the cache again and serves the entry stored meanwhile
apiRequestResolved_RechecksCache(i, data) ==
  LET call == inflight[i]
      served == call.touched /\ call.cacheKey \in DOMAIN cache
  IN /\ cache' = IF served THEN cache
                 ELSE [k \in DOMAIN cache \cup {call.cacheKey} |->
                         IF k = call.cacheKey THEN [data |-> data, timestamp |-> now]
                         ELSE cache[k]]
     /\ inflight' = StillPending(i, data)
     /\ last' = [NoOp EXCEPT !.op = "settle", !.url = call.url,
                             !.params = call.options.params, !.key = call.cacheKey,
                             !.outcome = "resolved", !.transport = "ok", !.body = data,
                             !.data = IF served THEN cache[call.cacheKey].data ELSE data,
                             !.snap = call.snap,
                             !.touched = call.touched, !.overtaken = call.overtaken,
                             !.waited = (last.op = "tick"),
                             !.clearedBy = IF call.cacheKey \in last.removed
                                             THEN last.op ELSE "none"]
     /\ UNCHANGED <<now, sites, probe, env, widget>>

\* a continuation that replaces the payload of an entry and keeps its timestamp
apiRequestResolved_KeepsTimestamp(i, data) ==
  LET call == inflight[i]
  IN /\ cache' = [k \in DOMAIN cache \cup {call.cacheKey} |->
                    IF k = call.cacheKey
                      THEN [data |-> data,
                            timestamp |-> IF k \in DOMAIN cache THEN cache[k].timestamp
                                          ELSE now]
                      ELSE cache[k]]
     /\ inflight' = StillPending(i, data)
     /\ last' = [NoOp EXCEPT !.op = "settle", !.url = call.url,
                             !.params = call.options.params, !.key = call.cacheKey,
                             !.outcome = "resolved", !.transport = "ok", !.body = data,
                             !.data = data, !.snap = call.snap,
                             !.touched = call.touched, !.overtaken = call.overtaken,
                             !.waited = (last.op = "tick"),
                             !.clearedBy = IF call.cacheKey \in last.removed
                                             THEN last.op ELSE "none"]
     /\ UNCHANGED <<now, sites, probe, env, widget>>

\* a continuation that stores only the bodies a service accepts
apiRequestResolved_ValidatesBody(i, data) ==
  LET call == inflight[i]
  IN /\ cache' = IF data \in {"void", "error-message", "note"} THEN cache
                 ELSE [k \in DOMAIN cache \cup {call.cacheKey} |->
                         IF k = call.cacheKey THEN [data |-> data, timestamp |-> now]
                         ELSE cache[k]]
     /\ inflight' = StillPending(i, data)
     /\ last' = [NoOp EXCEPT !.op = "settle", !.url = call.url,
                             !.params = call.options.params, !.key = call.cacheKey,
                             !.outcome = "resolved", !.transport = "ok", !.body = data,
                             !.data = data, !.snap = call.snap,
                             !.touched = call.touched, !.overtaken = call.overtaken]
     /\ UNCHANGED <<now, sites, probe, env, widget>>

\* the axios call of the i-th suspended apiRequest resolves with response.data = data:
\* cache[cacheKey] = { data: response.data, timestamp: Date.now() }; return response.data
apiRequestResolved(i, data) ==
  LET call == inflight[i]
  IN /\ cache' = [k \in DOMAIN cache \cup {call.cacheKey} |->
                    IF k = call.cacheKey THEN [data |-> data, timestamp |-> now]
                    ELSE cache[k]]
     /\ inflight' = StillPending(i, data)
     /\ last' = [NoOp EXCEPT !.op = "settle", !.url = call.url,
                             !.params = call.options.params, !.key = call.cacheKey,
                             !.outcome = "resolved", !.transport = "ok", !.body = data,
                             !.data = data, !.snap = call.snap,
                             !.touched = call.touched, !.overtaken = call.overtaken,
                             !.waited = (last.op = "tick"),
                             !.clearedBy = IF call.cacheKey \in last.removed
                                             THEN last.op ELSE "none"]
     /\ UNCHANGED <<now, sites, probe, env, widget>>

\* the catch block stores an empty entry for the key before it rethrows
apiRequestRejected_CachesFailure(i, error) ==
  LET call == inflight[i]
  IN /\ cache' = [k \in DOMAIN cache \cup {call.cacheKey} |->
                    IF k = call.cacheKey THEN [data |-> "", timestamp |-> now]
                    ELSE cache[k]]
     /\ inflight' = RemoveAt(inflight, i)
     /\ last' = [NoOp EXCEPT !.op = "settle", !.url = call.url,
                             !.params = call.options.params, !.key = call.cacheKey,
                             !.outcome = "rejected", !.transport = "failed",
                             !.failure = error, !.error = error,
                             !.logged = handleApiError(error, call.url),
                             !.snap = call.snap, !.touched = call.touched,
                             !.overtaken = call.overtaken]
     /\ UNCHANGED <<now, sites, probe, env, widget>>

\* the catch block returns the stale entry, or nothing, instead of rethrowing
apiRequestRejected_Fallback(i, error) ==
  LET call == inflight[i]
  IN /\ inflight' = RemoveAt(inflight, i)
     /\ last' = [NoOp EXCEPT !.op = "settle", !.url = call.url,
                             !.params = call.options.params, !.key = call.cacheKey,
                             !.outcome = "resolved", !.transport = "failed",
                             !.failure = error, !.data = EntryOf(cache, call.cacheKey).data,
                             !.logged = handleApiError(error, call.url),
                             !.snap = call.snap, !.touched = call.touched,
                             !.overtaken = call.overtaken]
     /\ UNCHANGED <<cache, now, sites, probe, env, widget>>

\* a catch that issues the axios call again instead of throwing
apiRequestRejected_Retries(i, error) ==
  LET call == inflight[i]
  IN /\ last' = [NoOp EXCEPT !.op = "retry", !.url = call.url,
                             !.params = call.options.params, !.key = call.cacheKey,
                             !.net = TRUE, !.transport = "failed", !.failure = error,
                             !.logged = handleApiError(error, call.url)]
     /\ UNCHANGED <<cache, now, inflight, sites, probe, env, widget>>

\* a catch that deletes the entry of the key of the failed call
apiRequestRejected_DropsEntry(i, error) ==
  LET call == inflight[i]
  IN /\ cache' = [k \in DOMAIN cache \ {call.cacheKey} |-> cache[k]]
     /\ inflight' = Touch(RemoveAt(inflight, i), {call.cacheKey})
     /\ last' = [NoOp EXCEPT !.op = "settle", !.url = call.url,
                             !.params = call.options.params, !.key = call.cacheKey,
                             !.outcome = "rejected", !.transport = "failed",
                             !.failure = error, !.error = error,
                             !.logged = handleApiError(error, call.url),
                             !.snap = call.snap, !.touched = call.touched,
                             !.overtaken = call.overtaken]
     /\ UNCHANGED <<now, sites, probe, env, widget>>

\* the axios call of the i-th suspended apiRequest rejects with error:
\* handleApiError(error, url); throw error
apiRequestRejected(i, error) ==
  LET call == inflight[i]
  IN /\ inflight' = RemoveAt(inflight, i)
     /\ last' = [NoOp EXCEPT !.op = "settle", !.url = call.url,
                             !.params = call.options.params, !.key = call.cacheKey,
                             !.outcome = "rejected", !.transport = "failed",
                             !.failure = error, !.error = error,
                             !.logged = handleApiError(error, call.url),
                             !.snap = call.snap, !.touched = call.touched,
                             !.overtaken = call.overtaken]
     /\ UNCHANGED <<cache, now, sites, probe, env, widget>>

(***************************************************************************)
(* Clearing                                                                 *)
(***************************************************************************)
\* a clearCache that empties a copy of the key list only
clearCache_KeepsEntries ==
  /\ last' = [NoOp EXCEPT !.op = "clearCache", !.removed = DOMAIN cache]
  /\ UNCHANGED <<cache, now, inflight, sites, probe, env, svc, widget>>

\* a clearCache that also drops the calls in flight
clearCache_CancelsInFlight ==
  /\ cache' = [k \in {} |-> NoEntry]
  /\ inflight' = <<>>
  /\ last' = [NoOp EXCEPT !.op = "clearCache", !.removed = DOMAIN cache]
  /\ UNCHANGED <<now, sites, probe, env, svc, widget>>

\* Object.keys(cache).forEach(key => { delete cache[key]; })
clearCache ==
  /\ cache' = [k \in {} |-> NoEntry]
  /\ inflight' = Touch(inflight, DOMAIN cache)
  /\ last' = [NoOp EXCEPT !.op = "clearCache", !.removed = DOMAIN cache]
  /\ UNCHANGED <<now, sites, probe, env, svc, widget>>

\* a clearCacheItem that drops the whole cache
clearCacheItem_DropsAll(url, params) ==
  LET cacheKey == getCacheKey(url, params)
  IN /\ cache' = [k \in {} |-> NoEntry]
     /\ inflight' = Touch(inflight, DOMAIN cache)
     /\ last' = [NoOp EXCEPT !.op = "clearCacheItem", !.url = url, !.params = params,
                             !.key = cacheKey, !.removed = DOMAIN cache \cap {cacheKey}]
     /\ UNCHANGED <<now, sites, probe, env, svc, widget>>

\* delete cache[getCacheKey(url, params)]
clearCacheItem(url, params) ==
  LET cacheKey == getCacheKey(url, params)
  IN /\ cache' = [k \in DOMAIN cache \ {cacheKey} |-> cache[k]]
     /\ inflight' = Touch(inflight, DOMAIN cache \cap {cacheKey})
     /\ last' = [NoOp EXCEPT !.op = "clearCacheItem", !.url = url, !.params = params,
                             !.key = cacheKey, !.removed = DOMAIN cache \cap {cacheKey}]
     /\ UNCHANGED <<now, sites, probe, env, svc, widget>>

\* time passes between two operations
Tick ==
  /\ \E t \in Instants : t > now /\ now' = t
  /\ last' = [NoOp EXCEPT !.op = "tick"]
  /\ UNCHANGED <<cache, inflight, sites, probe, env, svc, plain, widget>>

\* apiRequest called by a component, and the settling of such a call: no service
\* function is suspended on it
Call ==
  /\ \E r \in sites, d \in DurationArgs : apiRequest(r.url, r.options, d)
  /\ UNCHANGED <<svc, plain>>
Resolve ==
  /\ \E i \in 1..Len(inflight), data \in Bodies : apiRequestResolved(i, data)
  /\ UNCHANGED <<svc, plain>>
Reject ==
  /\ \E i \in 1..Len(inflight), error \in TransportErrors : apiRequestRejected(i, error)
  /\ UNCHANGED <<svc, plain>>
ClearAll ==
  /\ clearCache
  /\ UNCHANGED plain
ClearOne ==
  /\ \E r \in sites : clearCacheItem(r.url, r.options.params)
  /\ UNCHANGED plain

Next == Call \/ Resolve \/ Reject \/ ClearAll \/ ClearOne \/ Tick

Spec == Init /\ [][Next]_vars

(***************************************************************************)
(* The key derivation on its own: two argument pairs are drawn and their    *)
(* keys computed                                                            *)
(***************************************************************************)
ProbeUrls == {"u", "v"}
ProbeNames == {"p", "q"}
ProbeValues == {StrVal("a"), StrVal("1"), NumVal("1"), NullVal, NaNVal, UndefVal}

\* params objects of at most two properties with distinct names, in every insertion order
ProbeProps ==
  {<<>>}
    \cup { <<Pair(n, x)>> : n \in ProbeNames, x \in ProbeValues }
    \cup { <<Pair(n[1], x), Pair(n[2], y)>> :
             n \in {<<"p", "q">>, <<"q", "p">>}, x \in ProbeValues, y \in ProbeValues }

ProbeArgs ==
  { Args(u, Options(ps)) : u \in ProbeUrls, ps \in {NoParams} \cup { Params(s) : s \in ProbeProps } }

KeyInit ==
  /\ cache = [k \in {} |-> NoEntry]
  /\ now = 0
  /\ inflight = <<>>
  /\ last = NoOp
  /\ sites = {}
  /\ \E a \in ProbeArgs, b \in ProbeArgs :
       probe = [a |-> a, b |-> b, ka |-> "", kb |-> "", done |-> FALSE]
  /\ env = NoEnv
  /\ svc = NoService
  /\ plain = NoPlain
  /\ widget = NoWidget

\* getCacheKey(url, options.params), as apiRequest and clearCacheItem call it
KeyDerive ==
  /\ ~probe.done
  /\ probe' = [probe EXCEPT !.ka = getCacheKey(probe.a.url, probe.a.options.params),
                            !.kb = getCacheKey(probe.b.url, probe.b.options.params),
                            !.done = TRUE]
  /\ UNCHANGED <<cache, now, inflight, last, sites, env, svc, plain, widget>>

KeyNext == KeyDerive

KeySpec == KeyInit /\ [][KeyNext]_vars

(***************************************************************************)
(* Runs of the call sites with and without a params object                  *)
(***************************************************************************)
AbsentInit ==
  /\ cache = [k \in {} |-> NoEntry]
  /\ now = 0
  /\ inflight = <<>>
  /\ last = NoOp
  /\ sites \in AbsentSiteSets
  /\ probe = NoProbe
  /\ env = NoEnv
  /\ svc = NoService
  /\ plain = NoPlain
  /\ widget = NoWidget

AbsentSpec == AbsentInit /\ [][Next]_vars

(***************************************************************************)
(* The requests sent: call sites whose options carry more than params       *)
(***************************************************************************)
SendSiteSets ==
  { { Args("u", Options(NoParams)), Args("u", OptionsWith(NoParams, "v", "")) },
    { Args("u", Options(Params(<<Pair("q", StrVal("a"))>>))),
      Args("u", OptionsWith(Params(<<Pair("q", StrVal("a"))>>), "", "post")) } }

SendInit ==
  /\ cache = [k \in {} |-> NoEntry]
  /\ now = 0
  /\ inflight = <<>>
  /\ last = NoOp
  /\ sites \in SendSiteSets
  /\ probe = NoProbe
  /\ env = NoEnv
  /\ svc = NoService
  /\ plain = NoPlain
  /\ widget = NoWidget

SendSpec == SendInit /\ [][Next]_vars

(***************************************************************************)
(* The services: financialService, weatherService, airQualityService        *)
(***************************************************************************)
\* !value of getEnvVariable: undefined and the empty string are falsy
Falsy(x) == x.t = "undef" \/ (x.t = "str" /\ x.v = "")

\* an accessor that hands out the documentation's sample key when the name is not set
getEnvVariable_DefaultKey(key) ==
  LET value == env[key]
  IN IF Falsy(value) THEN SAMPLE_API_KEY ELSE value.v

\* const value = import.meta.env[key]; if (!value) { ...; return ''; } return value
getEnvVariable(key) ==
  LET value == env[key]
  IN IF Falsy(value) THEN "" ELSE value.v

\* financialService
getAlphaVantageApiKey == getEnvVariable("VITE_ALPHAVANTAGE_API_KEY")

\* weatherService: throws when the key is the sample key, else returns it
getOpenWeatherApiKey ==
  LET apiKey == getEnvVariable("VITE_OPENWEATHER_API_KEY")
  IN [threw |-> (apiKey = SAMPLE_API_KEY), value |-> apiKey]

\* airQualityService: its own getOpenWeatherApiKey, which only reads the variable
airQuality_getOpenWeatherApiKey == getEnvVariable("VITE_OPENWEATHER_API_KEY")

ServiceFunctions ==
  { "getStockData", "searchStocks", "getWeatherByCity", "getWeatherByCoords",
    "getAirQualityByCoords", "getLocationByCoords", "searchLocation" }

\* response bodies as the services tell them apart: one their checks accept, and []
ServiceBodies == {"good", "void"}

\* the bodies Alpha Vantage sends with status 200 when it refuses a query
RefusalBodies == {"error-message", "note"}

\* the bodies the transport may deliver for the request of a stage
BodiesOf(stage) ==
  IF stage \in {"daily", "search"} THEN ServiceBodies \cup RefusalBodies
  ELSE ServiceBodies

\* the failures axios produces in a service run
ServiceErrors ==
  {AxiosError(TRUE, 401, TRUE), AxiosError(TRUE, 429, TRUE), AxiosError(FALSE, 0, TRUE)}

\* the symbol, query or city a caller passes; the coordinates are { lat: 1, lon: 2 }
ServiceArgs == {"a", " "}

\* query.trim()
Trim(query) == IF query = " " THEN "" ELSE query

\* the url and options of the apiRequest a service function makes at a stage
RequestOf(fn, stage, arg, apiKey) ==
  LET coords == <<Pair("lat", NumVal("1")), Pair("lon", NumVal("2"))>>
      units == <<Pair("units", StrVal("metric"))>>
      appid == <<Pair("appid", StrVal(apiKey))>>
      where == IF fn = "getWeatherByCity" THEN <<Pair("q", StrVal(arg))>> ELSE coords
  IN CASE stage = "daily" ->
            Args("https://www.alphavantage.co/query",
                 Options(Params(<<Pair("function", StrVal("TIME_SERIES_DAILY")),
                                  Pair("symbol", StrVal(arg)),
                                  Pair("apikey", StrVal(apiKey))>>)))
       [] stage = "search" ->
            Args("https://www.alphavantage.co/query",
                 Options(Params(<<Pair("function", StrVal("SYMBOL_SEARCH")),
                                  Pair("keywords", StrVal(arg)),
                                  Pair("apikey", StrVal(apiKey))>>)))
       [] stage = "current" ->
            Args("https://api.openweathermap.org/data/2.5/weather",
                 Options(Params(where \o units \o appid)))
       [] stage = "forecast" ->
            Args("https://api.openweathermap.org/data/2.5/forecast",
                 Options(Params(where \o units \o appid)))
       [] stage = "air" ->
            Args("https://api.openweathermap.org/data/2.5/air_pollution",
                 Options(Params(coords \o appid)))
       [] stage = "reverse" ->
            Args("https://api.openweathermap.org/geo/1.0/reverse",
                 Options(Params(coords \o <<Pair("limit", NumVal("1"))>> \o appid)))
       [] stage = "direct" ->
            Args("https://api.openweathermap.org/geo/1.0/direct",
                 Options(Params(<<Pair("q", StrVal(arg)),
                                  Pair("limit", NumVal("1"))>> \o appid)))

\* the third argument of the apiRequest of a stage: only getStockData passes one
DurationOf(stage) ==
  IF stage = "daily" THEN DurationGiven(STOCK_CACHE_DURATION) ELSE DurationOmitted

\* the record of a call of fn that has read its credential
Started(fn, arg, credential) ==
  [NoService EXCEPT !.scope = svc.scope, !.fn = fn, !.arg = arg,
                    !.credential = credential, !.apiKey = credential]

Throw(s, message) == [s EXCEPT !.pc = "done", !.outcome = "rejected", !.thrown = message]
Return(s, result) == [s EXCEPT !.pc = "done", !.outcome = "resolved", !.result = result]

\* what the try/catch blocks around the stage of the running function do with a throw:
\* getAirQualityByCoords swallows whatever getLocationByCoords throws and keeps
\* locationName = 'Current Location'; getWeatherByCity and getAirQualityByCoords
\* replace a 401 by an Error of their own and rethrow the rest; getWeatherByCoords
\* rethrows; the other functions have no try
Caught(s, message, error) ==
  IF s.fn = "getAirQualityByCoords" /\ s.stage = "reverse"
    THEN Return(s, "Current Location")
  ELSE IF /\ s.fn \in {"getWeatherByCity", "getAirQualityByCoords"}
          /\ error.hasResponse /\ error.status = 401
    THEN Throw(s, "invalid-key")
    ELSE [Throw(s, message) EXCEPT !.error = error]

\* a step of a service function that makes no apiRequest
Stay(s) ==
  /\ svc' = s
  /\ last' = [NoOp EXCEPT !.op = "service"]
  /\ UNCHANGED <<cache, now, inflight, sites, probe, env, widget>>

\* await apiRequest(...) at a stage: a hit returns the entry's data to the function,
\* a miss leaves the function suspended until the axios call settles
Await(s, stage) ==
  LET r == RequestOf(s.fn, stage, s.arg, s.apiKey)
  IN /\ apiRequest(r.url, r.options, DurationOf(stage))
     /\ svc' = IF last'.outcome = "hit"
                 THEN [s EXCEPT !.pc = "resume", !.stage = stage, !.got = last'.data]
                 ELSE [s EXCEPT !.pc = "await", !.stage = stage]

\* financialService.getStockData(symbol), up to its await
getStockData(symbol) ==
  LET apiKey == getAlphaVantageApiKey
      s == Started("getStockData", symbol, apiKey)
  IN IF apiKey = "" THEN Stay(Throw(s, "key-missing")) ELSE Await(s, "daily")

\* financialService.searchStocks(query), up to its await
searchStocks(query) ==
  LET apiKey == getAlphaVantageApiKey
      s == Started("searchStocks", query, apiKey)
  IN IF apiKey = "" THEN Stay(Throw(s, "key-missing"))
     ELSE IF Trim(query) = "" THEN Stay(Return(s, "[]"))
     ELSE Await(s, "search")

\* a getWeatherByCity that asks for the forecast first
getWeatherByCity_ForecastFirst(city) ==
  LET apiKey == getOpenWeatherApiKey
      s == Started("getWeatherByCity", city, apiKey.value)
  IN IF apiKey.threw THEN Stay(Throw(s, "sample-key")) ELSE Await(s, "forecast")

\* weatherService.getWeatherByCity(city), up to its first await: the key is read
\* outside the try and is not tested
getWeatherByCity(city) ==
  LET apiKey == getOpenWeatherApiKey
      s == Started("getWeatherByCity", city, apiKey.value)
  IN IF apiKey.threw THEN Stay(Throw(s, "sample-key")) ELSE Await(s, "current")

\* weatherService.getWeatherByCoords(coordinates), up to its first apiRequest; the
\* fetch it makes before only logs and its failure is caught on the spot
getWeatherByCoords ==
  LET apiKey == getOpenWeatherApiKey
      s == Started("getWeatherByCoords", "", apiKey.value)
  IN IF apiKey.threw THEN Stay(Throw(s, "sample-key"))
     ELSE IF apiKey.value = "" THEN Stay(Throw(s, "key-missing"))
     ELSE Await(s, "current")

\* airQualityService.getAirQualityByCoords(coordinates), up to its first await: the
\* key is not tested
getAirQualityByCoords ==
  LET apiKey == airQuality_getOpenWeatherApiKey
      s == Started("getAirQualityByCoords", "", apiKey)
  IN Await(s, "air")

\* airQualityService.getLocationByCoords(coordinates), up to its await, within the
\* call whose record is s: a call of its own or one of getAirQualityByCoords
getLocationByCoords(s) ==
  LET apiKey == airQuality_getOpenWeatherApiKey
      t == [s EXCEPT !.stage = "reverse", !.apiKey = apiKey]
  IN IF apiKey = "" THEN Stay(Caught(t, "key-missing", NoError)) ELSE Await(t, "reverse")

\* airQualityService.searchLocation(query), up to its await
searchLocation(query) ==
  LET apiKey == airQuality_getOpenWeatherApiKey
      s == Started("searchLocation", query, apiKey)
  IN IF apiKey = "" THEN Stay(Throw(s, "key-missing")) ELSE Await(s, "direct")

\* a component calls the service function of the run; the calls of a run follow one
\* another
Invoke ==
  /\ svc.pc \in {"idle", "done"}
  /\ \/ svc.scope = "getStockData" /\ \E symbol \in ServiceArgs : getStockData(symbol)
     \/ svc.scope = "searchStocks" /\ \E query \in ServiceArgs : searchStocks(query)
     \/ svc.scope = "getWeatherByCity" /\ \E city \in ServiceArgs : getWeatherByCity(city)
     \/ svc.scope = "getWeatherByCoords" /\ getWeatherByCoords
     \/ svc.scope = "getAirQualityByCoords" /\ getAirQualityByCoords
     \/ svc.scope = "getLocationByCoords"
        /\ getLocationByCoords(
             Started("getLocationByCoords", "", airQuality_getOpenWeatherApiKey))
     \/ svc.scope = "searchLocation" /\ \E query \in ServiceArgs : searchLocation(query)
  /\ UNCHANGED plain

\* the function goes on with the data its apiRequest returned
Resume ==
  /\ svc.pc = "resume"
  /\ LET data == svc.got
     IN CASE svc.stage = "daily" ->
               \* response['Error Message'], response['Note'],
               \* !response['Time Series (Daily)']
               IF data = "error-message" THEN Stay(Throw(svc, "api-error"))
               ELSE IF data = "note" THEN Stay(Throw(svc, "api-limit"))
               ELSE IF data = "void" THEN Stay(Throw(svc, "invalid-response"))
               ELSE Stay(Return(svc, "series"))
          [] svc.stage = "search" ->
               IF data = "error-message" THEN Stay(Throw(svc, "api-error"))
               ELSE IF data = "note" THEN Stay(Throw(svc, "api-limit"))
               ELSE IF data = "void" THEN Stay(Throw(svc, "invalid-response"))
               ELSE Stay(Return(svc, "matches"))
          [] svc.stage = "current" ->
               Await([svc EXCEPT !.current = data], "forecast")
          [] svc.stage = "forecast" ->
               \* formatWeatherData reads forecast.list and currentWeather.sys
               IF data = "void" \/ svc.current = "void"
                 THEN Stay(Caught(svc, "type-error", NoError))
                 ELSE Stay(Return(svc, "weather"))
          [] svc.stage = "air" ->
               IF data = "void" THEN Stay(Caught(svc, "invalid-data", NoError))
               ELSE getLocationByCoords([svc EXCEPT !.current = data])
          [] svc.stage = "reverse" ->
               Stay(Return(svc, IF data = "void" THEN "Unknown Location" ELSE "place"))
          [] svc.stage = "direct" ->
               IF data = "void" THEN Stay(Throw(svc, "not-found"))
               ELSE Stay(Return(svc, "coords"))
  /\ UNCHANGED plain

\* the axios call of the apiRequest the function awaits resolves
ServiceResolved ==
  /\ svc.pc = "await"
  /\ \E data \in BodiesOf(svc.stage) :
       /\ apiRequestResolved(1, data)
       /\ svc' = [svc EXCEPT !.pc = "resume", !.got = data]
  /\ UNCHANGED plain

\* the axios call of the apiRequest the function awaits rejects: apiRequest throws
\* the error into the function
ServiceRejected ==
  /\ svc.pc = "await"
  /\ \E error \in ServiceErrors :
       /\ apiRequestRejected(1, error)
       /\ svc' = Caught([svc EXCEPT !.failed = TRUE], "transport", error)
  /\ UNCHANGED plain

ServiceInit ==
  /\ cache = [k \in {} |-> NoEntry]
  /\ now = 0
  /\ inflight = <<>>
  /\ last = NoOp
  /\ sites = {}
  /\ probe = NoProbe
  /\ env \in Envs
  /\ svc \in { [NoService EXCEPT !.scope = f] : f \in ServiceFunctions }
  /\ plain = NoPlain
  /\ widget = NoWidget

ServiceNext == Invoke \/ Resume \/ ServiceResolved \/ ServiceRejected \/ Tick

ServiceSpec == ServiceInit /\ [][ServiceNext]_vars

(***************************************************************************)
(* Progress: the transport settles the requests it was given               *)
(***************************************************************************)
\* a run with the one call site that passes q = "a"
LiveInit ==
  /\ cache = [k \in {} |-> NoEntry]
  /\ now = 0
  /\ inflight = <<>>
  /\ last = NoOp
  /\ sites = { r \in UNION SiteSets : r.options.params = Params(<<Pair("q", StrVal("a"))>>) }
  /\ probe = NoProbe
  /\ env = NoEnv
  /\ svc = NoService
  /\ plain = NoPlain
  /\ widget = NoWidget

\* the transport settles the request it was given first
SettleOldest ==
  /\ inflight # <<>>
  /\ \/ \E data \in Bodies : apiRequestResolved(1, data)
     \/ \E error \in TransportErrors : apiRequestRejected(1, error)
  /\ UNCHANGED <<svc, plain>>

LiveSpec == LiveInit /\ [][Next]_vars /\ WF_vars(SettleOldest)

\* the cache keys of the call sites
SiteKeys == { getCacheKey(r.url, r.options.params) : r \in UNION SiteSets }

(***************************************************************************)
(* AirQualityWidget: its state, its handlers and the promises it awaits     *)
(***************************************************************************)
\* getAirQualityByCoords calls awaited at once, searchLocation calls awaited at once
MaxOverlap == 2
MaxSearches == 1

WidgetCoords == {"here", "there"}
WidgetData == {AirQualityData(1, "p"), AirQualityData(2, "q")}
\* err.message of what getAirQualityByCoords and searchLocation reject with
FetchMessages == {"key-invalid", "network"}
SearchMessages == {"not-found"}
\* what the user types into the search box
TypedLocations == {"", " ", "x"}

\* the widget once mounted: the mount effect has asked for the position (and set
\* isLoading), or the browser has no geolocation
WidgetInit ==
  /\ cache = [k \in {} |-> NoEntry]
  /\ now = 0
  /\ inflight = <<>>
  /\ last = NoOp
  /\ sites = {}
  /\ probe = NoProbe
  /\ env = NoEnv
  /\ svc = NoService
  /\ plain = NoPlain
  /\ widget \in { [NoWidget EXCEPT !.isLoading = TRUE, !.geo = "pending"],
                  [NoWidget EXCEPT !.error = "geo-unsupported"] }

\* fetchAirQuality(coords) up to its await: setIsLoading(true); setError(null);
\* await getAirQualityByCoords(coords)
fetchAirQuality(w, coords) ==
  [w EXCEPT !.isLoading = TRUE, !.error = "none",
            !.fetches = Append([j \in 1..Len(@) |-> [@[j] EXCEPT !.latest = FALSE]],
                               [coords |-> coords, latest |-> TRUE])]

\* the success callback of getCurrentPosition: setCoordinates(coords);
\* fetchAirQuality(coords)
GeolocationSuccess ==
  /\ widget.geo = "pending"
  /\ Len(widget.fetches) < MaxOverlap
  /\ \E coords \in WidgetCoords :
       widget' = [fetchAirQuality([widget EXCEPT !.geo = "done",
                                                 !.coordinates = coords], coords)
                    EXCEPT !.event = "position"]
  /\ UNCHANGED <<cache, now, inflight, last, sites, probe, env, svc, plain>>

\* the error callback of getCurrentPosition: setError(...); setIsLoading(false)
GeolocationError ==
  /\ widget.geo = "pending"
  /\ widget' = [widget EXCEPT !.geo = "failed", !.error = "geo-failed",
                              !.isLoading = FALSE, !.event = "position-error"]
  /\ UNCHANGED <<cache, now, inflight, last, sites, probe, env, svc, plain>>

\* the setInterval callback of the refresh effect, which runs once coordinates are
\* set: fetchAirQuality(coordinates)
RefreshTick ==
  /\ widget.coordinates # "none"
  /\ Len(widget.fetches) < MaxOverlap
  /\ widget' = [fetchAirQuality(widget, widget.coordinates) EXCEPT !.event = "refresh"]
  /\ UNCHANGED <<cache, now, inflight, last, sites, probe, env, svc, plain>>

\* onChange of the search box: setLocation(e.target.value)
TypeLocation ==
  /\ \E text \in TypedLocations \ {widget.location} :
       widget' = [widget EXCEPT !.location = text, !.event = "typed"]
  /\ UNCHANGED <<cache, now, inflight, last, sites, probe, env, svc, plain>>

\* handleLocationSearch up to its await; the submit button is disabled while
\* isLoading, and an empty location.trim() returns at once
handleLocationSearch ==
  /\ ~widget.isLoading
  /\ Trim(widget.location) # ""
  /\ widget.searches < MaxSearches
  /\ widget' = [widget EXCEPT !.isLoading = TRUE, !.error = "none",
                              !.searches = @ + 1, !.event = "search"]
  /\ UNCHANGED <<cache, now, inflight, last, sites, probe, env, svc, plain>>

\* searchLocation resolved: setCoordinates(coords); fetchAirQuality(coords)
SearchResolved ==
  /\ widget.searches > 0
  /\ Len(widget.fetches) < MaxOverlap
  /\ \E coords \in WidgetCoords :
       widget' = [fetchAirQuality([widget EXCEPT !.searches = @ - 1,
                                                 !.coordinates = coords], coords)
                    EXCEPT !.event = "search-resolved"]
  /\ UNCHANGED <<cache, now, inflight, last, sites, probe, env, svc, plain>>

\* searchLocation rejected: setError(err.message); setIsLoading(false)
SearchRejected ==
  /\ widget.searches > 0
  /\ \E message \in SearchMessages :
       widget' = [widget EXCEPT !.searches = @ - 1, !.error = message,
                                !.isLoading = FALSE, !.event = "search-rejected"]
  /\ UNCHANGED <<cache, now, inflight, last, sites, probe, env, svc, plain>>

\* the i-th awaited getAirQualityByCoords resolved: setAirQualityData(data);
\* setLocation(data.location); finally setIsLoading(false)
FetchResolved ==
  /\ \E i \in 1..Len(widget.fetches), data \in WidgetData :
       widget' = [widget EXCEPT
                    !.fetches = RemoveAt(@, i),
                    !.airQualityData = data, !.location = data.location,
                    !.isLoading = FALSE, !.event = "fetch-resolved",
                    !.settled = [outcome |-> "resolved", data |-> data,
                                 message |-> "none",
                                 latest |-> widget.fetches[i].latest]]
  /\ UNCHANGED <<cache, now, inflight, last, sites, probe, env, svc, plain>>

\* the i-th awaited getAirQualityByCoords rejected: setError(err.message); finally
\* setIsLoading(false)
FetchRejected ==
  /\ \E i \in 1..Len(widget.fetches), message \in FetchMessages :
       widget' = [widget EXCEPT
                    !.fetches = RemoveAt(@, i),
                    !.error = message,
                    !.isLoading = FALSE, !.event = "fetch-rejected",
                    !.settled = [outcome |-> "rejected", data |-> NoData,
                                 message |-> message,
                                 latest |-> widget.fetches[i].latest]]
  /\ UNCHANGED <<cache, now, inflight, last, sites, probe, env, svc, plain>>

WidgetNext ==
  \/ GeolocationSuccess \/ GeolocationError \/ RefreshTick \/ TypeLocation
  \/ handleLocationSearch \/ SearchResolved \/ SearchRejected
  \/ FetchResolved \/ FetchRejected

WidgetSpec == WidgetInit /\ [][WidgetNext]_vars

(***************************************************************************)
(* The copy of api.ts without the console.log lines, run side by side with  *)
(* the logging one: same calls, same clock, same transport outcomes         *)
(***************************************************************************)
\* `${url}${params ? JSON.stringify(params) : ''}`
plain_getCacheKey(url, params) ==
  url \o (IF params.defined THEN JsonStringify(params.props) ELSE "")

\* const item = cache[cacheKey]; if (!item) return false;
\* return Date.now() - item.timestamp < cacheDuration
plain_isCacheValid(cacheKey, cacheDuration) ==
  /\ cacheKey \in DOMAIN plain.cache
  /\ now - plain.cache[cacheKey].timestamp < cacheDuration

\* handleApiError(error): the same three classes, no url and no hints
plain_handleApiError(error) ==
  IF error.hasResponse
    THEN [class |-> "response", rateLimit |-> (error.status = 429)]
  ELSE IF error.hasRequest
    THEN [class |-> "no-response", rateLimit |-> FALSE]
    ELSE [class |-> "setup", rateLimit |-> FALSE]

PlainDone(outcome) ==
  [plain EXCEPT !.outcome = outcome, !.net = FALSE, !.data = "", !.error = NoError,
                !.logged = NoPlain.logged]

\* a copy whose apiRequest judges every entry with the default window
plain_apiRequest_DefaultWindow(url, options, cacheDurationArg) ==
  LET cacheKey == plain_getCacheKey(url, options.params)
  IN IF plain_isCacheValid(cacheKey, DEFAULT_CACHE_DURATION)
       THEN plain' = [PlainDone("hit") EXCEPT !.data = plain.cache[cacheKey].data]
       ELSE /\ Len(plain.inflight) < MaxInFlight
            /\ plain' = [PlainDone("pending") EXCEPT
                           !.net = TRUE,
                           !.inflight = Append(@, [url |-> url, options |-> options,
                                                   cacheKey |-> cacheKey])]

\* apiRequest of the copy, up to the return of cached data or to the await
plain_apiRequest(url, options, cacheDurationArg) ==
  LET cacheDuration == EffectiveDuration(cacheDurationArg)
      cacheKey == plain_getCacheKey(url, options.params)
  IN IF plain_isCacheValid(cacheKey, cacheDuration)
       THEN plain' = [PlainDone("hit") EXCEPT !.data = plain.cache[cacheKey].data]
       ELSE /\ Len(plain.inflight) < MaxInFlight
            /\ plain' = [PlainDone("pending") EXCEPT
                           !.net = TRUE,
                           !.inflight = Append(@, [url |-> url, options |-> options,
                                                   cacheKey |-> cacheKey])]

\* cache[cacheKey] = { data: response.data, timestamp: Date.now() }; return response.data
plain_apiRequestResolved(i, data) ==
  /\ i \in 1..Len(plain.inflight)
  /\ LET call == plain.inflight[i]
     IN plain' = [PlainDone("resolved") EXCEPT
                    !.data = data,
                    !.inflight = RemoveAt(@, i),
                    !.cache = [k \in DOMAIN @ \cup {call.cacheKey} |->
                                 IF k = call.cacheKey
                                   THEN [data |-> data, timestamp |-> now]
                                   ELSE @[k]]]

\* handleApiError(error); throw error
plain_apiRequestRejected(i, error) ==
  /\ i \in 1..Len(plain.inflight)
  /\ plain' = [PlainDone("rejected") EXCEPT
                 !.error = error,
                 !.logged = plain_handleApiError(error),
                 !.inflight = RemoveAt(@, i)]

\* Object.keys(cache).forEach(key => { delete cache[key]; })
plain_clearCache ==
  plain' = [PlainDone("none") EXCEPT !.cache = [k \in {} |-> NoEntry]]

\* delete cache[getCacheKey(url, params)]
plain_clearCacheItem(url, params) ==
  LET cacheKey == plain_getCacheKey(url, params)
  IN plain' = [PlainDone("none") EXCEPT
                 !.cache = [k \in DOMAIN @ \ {cacheKey} |-> @[k]]]

\* the same call made on both copies, the same response or failure delivered to the
\* i-th request of each, the same clearing done on both
PairCall ==
  /\ \E r \in sites, d \in DurationArgs :
       /\ apiRequest(r.url, r.options, d)
       /\ plain_apiRequest(r.url, r.options, d)
  /\ UNCHANGED svc
PairResolve ==
  /\ \E i \in 1..Len(inflight), data \in Bodies :
       /\ apiRequestResolved(i, data)
       /\ plain_apiRequestResolved(i, data)
  /\ UNCHANGED svc
PairReject ==
  /\ \E i \in 1..Len(inflight), error \in TransportErrors :
       /\ apiRequestRejected(i, error)
       /\ plain_apiRequestRejected(i, error)
  /\ UNCHANGED svc
PairClearAll ==
  /\ clearCache
  /\ plain_clearCache
PairClearOne ==
  \E r \in sites :
    /\ clearCacheItem(r.url, r.options.params)
    /\ plain_clearCacheItem(r.url, r.options.params)

PairNext ==
  PairCall \/ PairResolve \/ PairReject \/ PairClearAll \/ PairClearOne \/ Tick

PairSpec == Init /\ [][PairNext]_vars

(***************************************************************************)
(* Vocabulary of the properties                                             *)
(***************************************************************************)
\* the properties of a params object as a set: names with their values, order forgotten
PropSet(params) == { params.props[i] : i \in DOMAIN params.props }

\* the query parameters a request carries: undefined values are not parameters
QuerySet(params) == { pr \in PropSet(params) : pr.value.t # "undef" }

\* the freshness window of the call recorded in last
WindowOf(op) == IF op.durationArg.given THEN op.durationArg.ms ELSE 300000

IsCall(op) == op.op = "apiRequest"
IsResolved(op) == op.op = "settle" /\ op.outcome = "resolved"
IsRejected(op) == op.op = "settle" /\ op.outcome = "rejected"

SameKeyInFlight(k) == \E i \in 1..Len(inflight) : inflight[i].cacheKey = k

(***************************************************************************)
(* Properties                                                               *)
(***************************************************************************)
\* C1: a request for a key whose entry is younger than the request's freshness
\* window issues no network call and returns the payload of that entry, which is
\* the payload the request that stored it returned.
C1_FreshEntryIsServed ==
  [][ /\ ( /\ IsCall(last')
           /\ last'.key \in DOMAIN cache
           /\ now - cache[last'.key].timestamp < WindowOf(last') )
         => ( /\ last'.outcome = "hit"
              /\ ~last'.net
              /\ inflight' = inflight
              /\ last'.data = cache[last'.key].data )
      /\ IsResolved(last')
         => ( /\ last'.key \in DOMAIN cache'
              /\ cache'[last'.key].data = last'.data )
    ]_vars

\* C1 witness: a request with the default window was served an entry of age 299999 ms
C1_Witness ==
  /\ IsCall(last) /\ last.outcome = "hit" /\ ~last.durationArg.given
  /\ last.key \in DOMAIN cache
  /\ now - cache[last.key].timestamp = 299999
  /\ last.data \in Bodies

\* C2: a request for a key whose entry has reached the age of the freshness window
\* (the boundary included) goes to the network, a successful response replaces the
\* entry, and the window is 300000 ms when the argument is omitted.
C2_StaleEntryIsRefetched ==
  [][ /\ ( /\ IsCall(last')
           /\ last'.key \in DOMAIN cache
           /\ now - cache[last'.key].timestamp >= WindowOf(last') )
         => ( /\ last'.outcome = "pending"
              /\ last'.net
              /\ Len(inflight') = Len(inflight) + 1
              /\ inflight'[Len(inflight')].cacheKey = last'.key )
      /\ IsResolved(last')
         => EntryOf(cache', last'.key) =
              [present |-> TRUE, data |-> last'.body, timestamp |-> now']
    ]_vars

\* C2 witness: an entry of age exactly 300000 ms was refetched by a request with the
\* window omitted, and the response replaced it
C2_Witness ==
  /\ IsResolved(last)
  /\ last.snap.present
  /\ now - last.snap.timestamp = 300000
  /\ ~last.touched
  /\ EntryOf(cache, last.key) # last.snap

\* C3 as stated: when a request rejects, the entry of its key is what it was when the
\* call was made.
C3_EntryAtReturnIsEntryAtCall ==
  IsRejected(last) => EntryOf(cache, last.key) = last.snap

\* C3 amended: the rejection itself writes nothing (the step in which a request
\* rejects leaves the whole cache as it was), and the entry of its key is what it was
\* when the call was made unless another operation stored or removed it meanwhile.
C3_RejectionWritesNothing ==
  [][ IsRejected(last')
        => ( /\ cache' = cache
             /\ ~last'.touched => EntryOf(cache', last'.key) = last'.snap )
    ]_vars

\* C3 witness: the refresh of a stale entry failed and the stale entry is still there
C3_Witness ==
  /\ IsRejected(last)
  /\ last.snap.present
  /\ ~last.touched
  /\ EntryOf(cache, last.key) = last.snap

\* C4: a transport failure makes the request reject with the failure the transport
\* produced; a request resolves only with the body of a successful response, and an
\* entry is written only by the successful response for its key, with its body.
C4_FailurePropagatesUnchanged ==
  [][ /\ (last'.op = "settle" /\ last'.transport = "failed")
         => (last'.outcome = "rejected" /\ last'.error = last'.failure)
      /\ IsResolved(last')
         => (last'.transport = "ok" /\ last'.data = last'.body /\ last'.body \in Bodies)
      /\ (IsCall(last') /\ last'.outcome = "hit") => last'.data \in Bodies
      /\ \A k \in DOMAIN cache' :
           EntryOf(cache', k) # EntryOf(cache, k)
             => ( /\ IsResolved(last') /\ last'.key = k
                  /\ cache'[k].data = last'.body )
    ]_vars

\* C4 witness: the transport failed with a 429 response and the request rejected with it
C4_Witness ==
  /\ IsRejected(last)
  /\ last.transport = "failed"
  /\ last.failure = AxiosError(TRUE, 429, TRUE)
  /\ last.error = last.failure

\* C5: with the same url, params with the same names and values give the same key
\* whatever the insertion order, and params that differ in a value give different keys.
C5_KeyIgnoresOrderAndSeparatesValues ==
  ( /\ probe.done
    /\ probe.a.url = probe.b.url
    /\ probe.a.options.params.defined /\ probe.b.options.params.defined )
  => LET pa == probe.a.options.params.props
         pb == probe.b.options.params.props
     IN /\ PropSet(probe.a.options.params) = PropSet(probe.b.options.params)
             => probe.ka = probe.kb
        /\ ( /\ Len(pa) = Len(pb)
             /\ \A i \in DOMAIN pa : pa[i].name = pb[i].name
             /\ \E i \in DOMAIN pa : pa[i].value # pb[i].value )
             => probe.ka # probe.kb

\* C6: a request without params and a request with the empty params object use one
\* key: an entry stored by either is a hit for the other.
C6_AbsentParamsAreEmptyParams ==
  ( /\ IsCall(last)
    /\ QuerySet(last.params) = {}
    /\ \E k \in { getCacheKey(last.url, NoParams), getCacheKey(last.url, Params(<<>>)) } :
         /\ k \in DOMAIN cache
         /\ now - cache[k].timestamp < WindowOf(last) )
  => (last.outcome = "hit" /\ ~last.net)

\* C7: requests that differ in the url or in the query parameters have different keys.
C7_KeyIsLossless ==
  ( /\ probe.done
    /\ \/ probe.a.url # probe.b.url
       \/ QuerySet(probe.a.options.params) # QuerySet(probe.b.options.params) )
  => probe.ka # probe.kb

\* C8: clearCache leaves no entry, the request that follows it goes to the network
\* whatever its freshness window, and so does every request for a key that has no
\* entry.
C8_ClearAllForcesRefetch ==
  [][ /\ last'.op = "clearCache" => DOMAIN cache' = {}
      /\ (last.op = "clearCache" /\ IsCall(last'))
         => (last'.outcome = "pending" /\ last'.net)
      /\ (IsCall(last') /\ last'.key \notin DOMAIN cache)
         => (last'.outcome = "pending" /\ last'.net)
    ]_vars

\* C8 witness: a request with the 30 minute window for a key clearCache had just
\* removed went to the network
C8_Witness ==
  /\ IsCall(last)
  /\ last.clearedBy = "clearCache"
  /\ last.durationArg = DurationGiven(STOCK_CACHE_DURATION)
  /\ last.outcome = "pending"

\* C9: clearCacheItem(url, params) removes the entry of getCacheKey(url, params) and
\* leaves every other entry as it was; without such an entry it changes nothing, and
\* a fresh entry of another key is still served without network afterwards.
C9_ClearOneRemovesOnlyItsKey ==
  [][ /\ last'.op = "clearCacheItem"
         => ( /\ last'.key = getCacheKey(last'.url, last'.params)
              /\ DOMAIN cache' = DOMAIN cache \ {last'.key}
              /\ \A k \in DOMAIN cache' : cache'[k] = cache[k]
              /\ last'.key \notin DOMAIN cache => cache' = cache )
      /\ ( /\ last.op = "clearCacheItem" /\ IsCall(last')
           /\ last'.key # last.key
           /\ last'.key \in DOMAIN cache
           /\ now - cache[last'.key].timestamp < WindowOf(last') )
         => ( /\ last'.outcome = "hit" /\ ~last'.net
              /\ last'.data = cache[last'.key].data )
    ]_vars

\* C9 witness: clearCacheItem removed an entry while the entry of another key stayed
C9_Witness ==
  /\ last.op = "clearCacheItem"
  /\ last.removed = {last.key}
  /\ DOMAIN cache # {}
  /\ last.key \notin DOMAIN cache

\* C10: a request for a key without a fresh entry goes to the network although a
\* request for the same key is already in flight, and when a request resolves the
\* entry of its key holds its payload, also when a request issued later resolved
\* before it.
C10_LastCompletionWins ==
  [][ /\ ( /\ IsCall(last')
           /\ SameKeyInFlight(last'.key)
           /\ ~( /\ last'.key \in DOMAIN cache
                 /\ now - cache[last'.key].timestamp < WindowOf(last') ) )
         => ( /\ last'.outcome = "pending" /\ last'.net
              /\ Len(inflight') = Len(inflight) + 1 )
      /\ IsResolved(last')
         => ( /\ EntryOf(cache', last'.key).present
              /\ EntryOf(cache', last'.key).data = last'.data
              /\ Len(inflight') = Len(inflight) - 1 )
    ]_vars

\* C10 witness: of two requests for one key the one issued first resolved last, after
\* the other had stored a different payload, and the entry holds its payload
C10_Witness ==
  /\ IsResolved(last)
  /\ last.overtaken \in Bodies \ {last.data}
  /\ ~last.snap.present
  /\ ~SameKeyInFlight(last.key)
  /\ cache[last.key].data = last.data

\* C11: when the transport fails with a response of status 429 the request rejects
\* with that failure, the handler logs a server response with the rate limit noted,
\* the cache is left as it was, and no further network call is issued for the call.
C11_RateLimitRejectsWithoutRetry ==
  [][ ( /\ last'.op = "settle"
        /\ last'.transport = "failed"
        /\ last'.failure.hasResponse /\ last'.failure.status = 429 )
      => ( /\ last'.outcome = "rejected"
           /\ last'.error = last'.failure
           /\ last'.data = ""
           /\ last'.logged.class = "response"
           /\ last'.logged.rateLimit
           /\ cache' = cache
           /\ Len(inflight') = Len(inflight) - 1
           /\ \A i \in 1..Len(inflight') :
                \E j \in 1..Len(inflight) : inflight'[i] = inflight[j] )
    ]_vars

\* C11 witness: the refresh of an entry was answered with 429 and rejected, the entry
\* is still the one the call found
C11_Witness ==
  /\ IsRejected(last)
  /\ last.failure.status = 429
  /\ last.logged.rateLimit
  /\ last.snap.present
  /\ EntryOf(cache, last.key) = last.snap

\* C13: a call either returns the entry (exactly when the entry is fresh as the call
\* is made) without a network call, or issues one network call; the issued call ends
\* resolved with the body of its own response or rejected with its own failure, also
\* when the entry of its key was stored or removed while it was suspended.
C13_OneDecisionPerCall ==
  [][ /\ IsCall(last')
         => LET fresh == /\ last'.key \in DOMAIN cache
                         /\ now - cache[last'.key].timestamp < WindowOf(last')
            IN /\ last'.outcome \in {"hit", "pending"}
               /\ last'.outcome = "hit" <=> fresh
               /\ last'.net <=> ~fresh
               /\ fresh => inflight' = inflight
               /\ ~fresh => Len(inflight') = Len(inflight) + 1
      /\ last'.op = "settle"
         => ( /\ last'.outcome \in {"resolved", "rejected"}
              /\ last'.outcome = "resolved" <=> last'.transport = "ok"
              /\ last'.outcome = "resolved" => last'.data = last'.body
              /\ last'.outcome = "rejected" => last'.error = last'.failure
              /\ Len(inflight') = Len(inflight) - 1 )
    ]_vars

\* C13 witness: a call that missed resolved with its own body although another call
\* had stored a different payload for the key while it was suspended
C13_Witness ==
  /\ IsResolved(last)
  /\ last.touched
  /\ last.overtaken \in Bodies
  /\ last.data = last.body
  /\ last.data # last.overtaken

\* C15: the handler logs exactly one class, looking for a response first, then for a
\* request, else a setup failure; it returns nothing, the cache is left as it was and
\* the call rejects.
C15_ClassificationOrder ==
  [][ (last'.op = "settle" /\ last'.transport = "failed")
      => ( /\ last'.logged.class =
                IF last'.failure.hasResponse THEN "response"
                ELSE IF last'.failure.hasRequest THEN "no-response"
                ELSE "setup"
           /\ last'.outcome = "rejected"
           /\ last'.data = ""
           /\ cache' = cache )
    ]_vars

\* C15 witness: a failure that carries a response and a request was logged as a
\* server response
C15_Witness ==
  /\ IsRejected(last)
  /\ last.failure.hasResponse /\ last.failure.hasRequest
  /\ last.logged.class = "response"

\* C20: a call that is served from the cache leaves every entry as it was, the
\* timestamp of the served entry included.
C20_HitLeavesCache ==
  [][ (IsCall(last') /\ last'.outcome = "hit")
      => (cache' = cache /\ inflight' = inflight /\ now' = now)
    ]_vars

\* C20 witness: an entry of age 300000 ms was served to a call with the 30 minute
\* window and kept its timestamp
C20_Witness ==
  /\ IsCall(last) /\ last.outcome = "hit"
  /\ last.durationArg = DurationGiven(STOCK_CACHE_DURATION)
  /\ last.key \in DOMAIN cache
  /\ now - cache[last.key].timestamp = 300000

\* C12: a call whose parameter values differ from those of the one cached entry of
\* its url has a key of its own and issues its own network call, whatever the age of
\* that entry; the step that stores a response leaves the entry of every call site
\* with other parameter values as it was.
C12_OtherValuesOtherEntry ==
  [][ /\ IsCall(last')
         => \A r \in sites :
              ( /\ r.url = last'.url
                /\ QuerySet(r.options.params) # QuerySet(last'.params)
                /\ DOMAIN cache = {getCacheKey(r.url, r.options.params)} )
              => ( /\ last'.key # getCacheKey(r.url, r.options.params)
                   /\ last'.outcome = "pending"
                   /\ last'.net
                   /\ Len(inflight') = Len(inflight) + 1 )
      /\ IsResolved(last')
         => \A r \in sites :
              QuerySet(r.options.params) # QuerySet(last'.params)
              => EntryOf(cache', getCacheKey(r.url, r.options.params))
                   = EntryOf(cache, getCacheKey(r.url, r.options.params))
    ]_vars

\* C12 witness: the response for q = "b" was stored while the entry for q = "a" was
\* present, and that entry still holds its own payload
C12_Witness ==
  LET a == getCacheKey("openweathermap.org/w", Params(<<Pair("q", StrVal("a"))>>))
  IN /\ IsResolved(last)
     /\ last.params = Params(<<Pair("q", StrVal("b"))>>)
     /\ ~last.snap.present
     /\ a \in DOMAIN cache
     /\ a # last.key
     /\ cache[a].data # cache[last.key].data
     /\ cache[a].timestamp < cache[last.key].timestamp

\* C14: the step in which a call resolves stores, under the key of the call's url
\* and params, the entry { response body, clock at that step }, whatever entry the
\* key had before, leaves the other entries as they were, and returns the body.
C14_StoresBodyAtCompletion ==
  [][ IsResolved(last')
      => ( /\ last'.key = getCacheKey(last'.url, last'.params)
           /\ DOMAIN cache' = DOMAIN cache \cup {last'.key}
           /\ cache'[last'.key] = [data |-> last'.body, timestamp |-> now]
           /\ \A k \in DOMAIN cache \ {last'.key} : cache'[k] = cache[k]
           /\ last'.data = last'.body
           /\ now' = now )
    ]_vars

\* C14 witness: a call made at instant 0 found no entry; another call stored a payload
\* for the key, the clock advanced, and then the response of the first call replaced
\* that entry with its own body and the clock of its arrival
C14_Witness ==
  /\ IsResolved(last)
  /\ last.waited
  /\ ~last.snap.present
  /\ last.overtaken \in Bodies
  /\ last.overtaken # last.body
  /\ now = DEFAULT_CACHE_DURATION - 1
  /\ cache[last.key] = [data |-> last.body, timestamp |-> now]

\* C18: every axios call in flight is a GET for the url argument of its apiRequest
\* with the params of its options, the pair its cache key was derived from.
C18_SentAsKeyed ==
  \A i \in 1..Len(inflight) :
    LET call == inflight[i]
        config == AxiosConfig(call.url, call.options)
    IN /\ config.method = "get"
       /\ config.url = call.url
       /\ config.params = call.options.params
       /\ call.cacheKey = getCacheKey(config.url, config.params)

\* C16: the credential a service call has read is the empty string when the variable
\* is unset or empty and the configured string otherwise; no other string is ever
\* put in its place.
C16_CredentialIsConfiguredOrEmpty ==
  svc.fn # "none"
  => LET name == IF svc.fn \in {"getStockData", "searchStocks"}
                   THEN "VITE_ALPHAVANTAGE_API_KEY"
                   ELSE "VITE_OPENWEATHER_API_KEY"
     IN /\ env[name] \in {UndefVal, StrVal("")} => svc.credential = ""
        /\ env[name] \notin {UndefVal, StrVal("")} => StrVal(svc.credential) = env[name]

\* C16 witness: with the variable unset the call read the empty string, found it
\* missing and rejected with nothing sent
C16_Witness ==
  /\ svc.fn = "getStockData"
  /\ env["VITE_ALPHAVANTAGE_API_KEY"] = UndefVal
  /\ svc.credential = ""
  /\ svc.outcome = "rejected" /\ svc.thrown = "key-missing"
  /\ inflight = <<>>

\* C17: a service call that has read an empty credential is rejected for the missing
\* key, and no request in flight carries an empty credential.
C17_EmptyCredentialIsNeverSent ==
  /\ (svc.fn # "none" /\ svc.credential = "")
     => (svc.pc = "done" /\ svc.outcome = "rejected" /\ svc.thrown = "key-missing")
  /\ \A i \in 1..Len(inflight) :
       \A pr \in PropSet(inflight[i].options.params) :
         pr.name \in {"appid", "apikey"} => pr.value # StrVal("")

\* C19: a service call in which an apiRequest has rejected is rejected.
C19_NoSilentFallback ==
  svc.failed => svc.outcome = "rejected"

\* C21: only clearCache and clearCacheItem take keys out of the cache; a call, a
\* rejection and the passing of time leave every entry as it was, stale ones
\* included, and a resolving call changes the entry of its own key only.
C21_EntriesLeaveOnlyByClearing ==
  [][ /\ last'.op \notin {"clearCache", "clearCacheItem"}
         => DOMAIN cache \subseteq DOMAIN cache'
      /\ (IsCall(last') \/ IsRejected(last') \/ last'.op = "tick")
         => cache' = cache
      /\ IsResolved(last')
         => \A k \in DOMAIN cache \ {last'.key} : cache'[k] = cache[k]
    ]_vars

\* C21 witness: a call with the default window found the entry of its key stale and
\* went to the network; the stale entry is still in the cache, next to another entry
C21_Witness ==
  /\ IsCall(last) /\ last.outcome = "pending" /\ ~last.durationArg.given
  /\ last.key \in DOMAIN cache
  /\ now - cache[last.key].timestamp >= DEFAULT_CACHE_DURATION
  /\ cache[last.key].data \in Bodies
  /\ Cardinality(DOMAIN cache) = 2

\* C22: while the transport keeps settling the request it was given first, a call
\* in flight for a key is followed by the settling of a call for that key; the
\* settling of a call in flight is possible whatever else is in flight, calls for the
\* same key included, and a call that is served from the cache is not in flight.
C22_EveryCallSettles ==
  /\ [](\A i \in 1..Len(inflight) :
          /\ ENABLED (apiRequestResolved(i, "v1") /\ UNCHANGED <<svc, plain>>)
          /\ ENABLED (apiRequestRejected(i, AxiosError(FALSE, 0, TRUE)) /\ UNCHANGED <<svc, plain>>))
  /\ []((IsCall(last) /\ last.outcome = "hit") => ~last.net)
  /\ \A k \in SiteKeys :
       SameKeyInFlight(k) ~> (last.op = "settle" /\ last.key = k)

\* C22 witness: of two calls in flight for one key the one made last has resolved
\* while the one made first is still in flight
C22_Witness ==
  /\ IsResolved(last)
  /\ Len(inflight) = 1
  /\ inflight[1].cacheKey = last.key
  /\ inflight[1].overtaken = last.body

\* C23: clearCache and clearCacheItem leave the calls in flight in flight; a call
\* that resolves stores the entry of its key also when the entry was cleared while
\* it was in flight, and a call for that key made right after is served that entry
\* without network.
C23_ClearingDoesNotCancel ==
  [][ /\ last'.op \in {"clearCache", "clearCacheItem"}
         => ( /\ Len(inflight') = Len(inflight)
              /\ \A i \in 1..Len(inflight) :
                   inflight'[i] = [inflight[i] EXCEPT !.touched = inflight'[i].touched] )
      /\ IsResolved(last')
         => cache'[last'.key] = [data |-> last'.body, timestamp |-> now]
      /\ (IsResolved(last) /\ IsCall(last') /\ last'.key = last.key)
         => ( /\ last'.outcome = "hit" /\ ~last'.net
              /\ last'.data = last.body
              /\ inflight' = inflight )
    ]_vars

\* C23 witness: clearCache removed the entry of a key while a call for it was in
\* flight, then the call resolved and the entry of the key holds its body
C23_Witness ==
  /\ IsResolved(last)
  /\ last.clearedBy = "clearCache"
  /\ last.touched
  /\ cache[last.key].data = last.body

\* C24: an entry holds a payload and a timestamp and no window; whether a call was
\* served from the cache is decided by the age of the entry and the window of that
\* call alone: served when the age is below its window, sent to the network when
\* the age has reached it.
C24_ReaderWindowDecides ==
  /\ \A k \in DOMAIN cache : DOMAIN cache[k] = {"data", "timestamp"}
  /\ IsCall(last)
     => LET age == now - EntryOf(cache, last.key).timestamp
            window == IF last.durationArg.given THEN last.durationArg.ms ELSE 300000
        IN IF EntryOf(cache, last.key).present /\ age < window
             THEN last.outcome = "hit" /\ ~last.net
             ELSE last.outcome = "pending" /\ last.net

\* C24 witness: one entry of age 300000: a call with the default window found it
\* stale and is in flight for it, and a call with the 30 minute window has just been
\* served it
C24_Witness ==
  /\ IsCall(last) /\ last.outcome = "hit"
  /\ last.durationArg = DurationGiven(STOCK_CACHE_DURATION)
  /\ now - cache[last.key].timestamp = DEFAULT_CACHE_DURATION
  /\ \E i \in 1..Len(inflight) :
       /\ inflight[i].cacheKey = last.key
       /\ inflight[i].snap = EntryOf(cache, last.key)
       /\ ~inflight[i].touched

\* C25: a rejection leaves the entry of its key as it was. A call for the key made
\* right after, with the entry still the one the failed call had found, goes to the
\* network when there is no entry or when it has the default window the failed
\* refresh had, and is served the old payload when its window exceeds the age of the
\* entry.
C25_FailuresAreNotCached ==
  [][ /\ IsRejected(last')
         => EntryOf(cache', last'.key) = EntryOf(cache, last'.key)
      /\ ( /\ IsRejected(last) /\ IsCall(last')
           /\ last'.key = last.key
           /\ EntryOf(cache, last.key) = last.snap )
         => ( /\ last'.afterFailure
              /\ ~last.snap.present
                 => (last'.outcome = "pending" /\ last'.net)
              /\ (last.snap.present /\ ~last'.durationArg.given)
                 => (last'.outcome = "pending" /\ last'.net)
              /\ (last.snap.present /\ now - last.snap.timestamp < WindowOf(last'))
                 => ( /\ last'.outcome = "hit" /\ ~last'.net
                      /\ last'.data = last.snap.data ) )
    ]_vars

\* C25 witness: the refresh of a stale entry has just failed, and a call with the
\* 30 minute window made right after is served the old payload of age 300000
C25_Witness ==
  /\ IsCall(last) /\ last.afterFailure
  /\ last.outcome = "hit"
  /\ last.durationArg = DurationGiven(STOCK_CACHE_DURATION)
  /\ now - cache[last.key].timestamp = DEFAULT_CACHE_DURATION
  /\ last.data = cache[last.key].data

\* C26: the body of a response to getStockData is stored before getStockData looks
\* at it; a getStockData call whose key holds a body the service refuses is served
\* that body without network and rejects with the error of that body.
C26_RefusedBodyIsCached ==
  [][ /\ ( /\ svc.fn = "getStockData" /\ svc.pc = "await"
           /\ IsResolved(last') )
         => ( /\ EntryOf(cache', last'.key)
                   = [present |-> TRUE, data |-> last'.body, timestamp |-> now]
              /\ svc'.pc = "resume" /\ svc'.got = last'.body )
      /\ ( /\ svc'.fn = "getStockData" /\ IsCall(last')
           /\ last'.key \in DOMAIN cache
           /\ cache[last'.key].data \in RefusalBodies \cup {"void"} )
         => ( /\ last'.outcome = "hit" /\ ~last'.net
              /\ inflight' = inflight
              /\ svc'.pc = "resume" /\ svc'.got = cache[last'.key].data )
      /\ ( /\ svc.fn = "getStockData" /\ svc.pc = "resume"
           /\ last'.op = "service"
           /\ svc.got \in RefusalBodies \cup {"void"} )
         => ( /\ svc'.pc = "done" /\ svc'.outcome = "rejected"
              /\ svc'.thrown = ( CASE svc.got = "error-message" -> "api-error"
                                   [] svc.got = "note" -> "api-limit"
                                   [] svc.got = "void" -> "invalid-response" )
              /\ inflight' = inflight
              /\ cache' = cache )
    ]_vars

\* C26 witness: 300000 ms after the response was stored, getStockData has been served
\* the cached 'Note' body without a network call
C26_Witness ==
  /\ svc.fn = "getStockData" /\ svc.pc = "resume"
  /\ svc.got = "note"
  /\ IsCall(last) /\ last.outcome = "hit" /\ ~last.net
  /\ now - cache[last.key].timestamp = DEFAULT_CACHE_DURATION
  /\ inflight = <<>>

\* C28: getWeatherByCity asks for the forecast only once it holds the current
\* weather; when the current-weather request fails it rejects with nothing in
\* flight; when the forecast request fails it rejects and the current-weather entry
\* is still cached; and a call that finds the current-weather entry fresh is served
\* it without network.
C28_ForecastFollowsCurrent ==
  [][ LET current == "https://api.openweathermap.org/data/2.5/weather"
          forecast == "https://api.openweathermap.org/data/2.5/forecast"
          currentKey == getCacheKey(current,
                                    RequestOf("getWeatherByCity", "current",
                                              svc.arg, svc.apiKey).options.params)
      IN svc'.fn = "getWeatherByCity"
         => ( /\ (IsCall(last') /\ last'.url = forecast)
                 => ( /\ svc.fn = "getWeatherByCity"
                      /\ svc.pc = "resume" /\ svc.stage = "current"
                      /\ currentKey \in DOMAIN cache
                      /\ cache[currentKey].data = svc.got )
              /\ (IsRejected(last') /\ last'.url = current)
                 => ( /\ svc'.pc = "done" /\ svc'.outcome = "rejected"
                      /\ inflight' = <<>>
                      /\ cache' = cache )
              /\ (IsRejected(last') /\ last'.url = forecast)
                 => ( /\ svc'.pc = "done" /\ svc'.outcome = "rejected"
                      /\ inflight' = <<>>
                      /\ currentKey \in DOMAIN cache'
                      /\ cache'[currentKey].data = svc.current )
              /\ ( /\ IsCall(last') /\ last'.url = current
                   /\ last'.key \in DOMAIN cache
                   /\ now - cache[last'.key].timestamp < DEFAULT_CACHE_DURATION )
                 => ( /\ last'.outcome = "hit" /\ ~last'.net
                      /\ inflight' = inflight
                      /\ svc'.pc = "resume" /\ svc'.stage = "current" ) )
    ]_vars

\* C28 witness: the forecast request of getWeatherByCity has failed: the call is
\* rejected, the current weather it had fetched is cached, the forecast is not
C28_Witness ==
  /\ svc.fn = "getWeatherByCity" /\ svc.pc = "done" /\ svc.outcome = "rejected"
  /\ svc.stage = "forecast" /\ svc.failed
  /\ IsRejected(last)
  /\ last.key \notin DOMAIN cache
  /\ \E k \in DOMAIN cache : cache[k].data = svc.current /\ svc.current = "good"

\* C29: when an apiRequest made within getWeatherByCity or getAirQualityByCoords
\* has just rejected, the call rejects: with an error of its own that carries no
\* status when the failure has a response of status 401, and with the failure
\* itself in every other case.
C29_UnauthorizedReplacedRestRethrown ==
  ( /\ svc.fn \in {"getWeatherByCity", "getAirQualityByCoords"}
    /\ IsRejected(last) )
  => ( /\ svc.pc = "done" /\ svc.outcome = "rejected"
       /\ IF last.error.hasResponse /\ last.error.status = 401
            THEN svc.thrown = "invalid-key" /\ svc.error = NoError
            ELSE svc.thrown = "transport" /\ svc.error = last.error )

\* C27: after every call, response, failure and clearing applied to both copies of
\* api.ts, the two caches hold the same entries, the same requests are waiting at
\* axios in the same order, and the call or settlement that just ran went to the
\* network on both or on neither and returned the same data or threw the same error.
C27_VariantsAgree ==
  /\ plain.cache = cache
  /\ Len(plain.inflight) = Len(inflight)
  /\ \A j \in 1..Len(inflight) :
       j <= Len(plain.inflight) =>
         AxiosConfig(plain.inflight[j].url, plain.inflight[j].options)
           = AxiosConfig(inflight[j].url, inflight[j].options)
  /\ last.op \in {"apiRequest", "settle"} =>
       /\ plain.outcome = last.outcome
       /\ plain.net = last.net
       /\ plain.data = last.data
       /\ plain.error = last.error

\* C27 witness: both copies served, under the 30 minute window, an entry older than
\* the default window while a request for the other key was waiting on both
C27_Witness ==
  /\ IsCall(last) /\ last.outcome = "hit" /\ plain.outcome = "hit"
  /\ last.durationArg.given
  /\ now - cache[last.key].timestamp >= DEFAULT_CACHE_DURATION
  /\ plain.data = last.data /\ plain.data \in Bodies
  /\ Len(inflight) = 1 /\ Len(plain.inflight) = 1
  /\ plain.inflight[1].cacheKey # last.key

\* C30: when a fetchAirQuality call has just completed, the widget is not loading,
\* its error is the error of that call (none when the call succeeded) and, when the
\* call succeeded, its data is the data of that call; and the widget is not loading
\* when it waits for no position, search or fetch.
C30_LastCompletionIsDisplayed ==
  /\ widget.event \in {"fetch-resolved", "fetch-rejected"} =>
       /\ ~widget.isLoading
       /\ widget.error = widget.settled.message
       /\ widget.settled.outcome = "resolved" =>
            widget.airQualityData = widget.settled.data
  /\ (widget.fetches = <<>> /\ widget.searches = 0 /\ widget.geo # "pending")
       => ~widget.isLoading

====
